---- MODULE Spec2Model ----
(***************************************************************************)
(* go-ffmpeg: supervised execution of the ffprobe / ffmpeg binaries under  *)
(* a context deadline.  The model follows src/unnamed/part_000 (ffprobe)   *)
(* and src/unnamed/part_001 (ffmpeg: frame extraction, MP4 conversion).    *)
(*                                                                         *)
(* Go strings are sequences of one-character strings, a Go pointer is a    *)
(* sequence of length 0 (nil) or 1 (the pointee), a Go error is a record   *)
(* [kind, wraps].                                                          *)
(***************************************************************************)
EXTENDS Integers, Sequences, FiniteSets, TLC

\* ------------------------------------------------------------------ bounds
\* API operations (setter calls and runner calls) in one behaviour.
MaxOps == 3
\* Chunks a subprocess writes to its standard output.
MaxOut == 1
\* Characters of a file path given to the output-name functions.
MaxPathLen == 5

\* ------------------------------------------------------------ Go pointers
NIL == <<>>
Ptr(v) == <<v>>
Deref(p) == p[1]

\* -------------------------------------------------------------- Go errors
Err(k) == [kind |-> k, wraps |-> "none"]
\* fmt.Errorf("... %w", e)
Wrap(k, e) == [kind |-> k, wraps |-> e.kind]
NilErr == Err("nil")
ErrTimeout == Err("ErrTimeout")
ErrFFProbeNotFound == Err("ErrFFProbeNotFound")
ErrFFMPEGNotFound == Err("ErrFFMPEGNotFound")
\* fmt.Errorf("option not set")
ErrOptionNotSet == Err("option not set")
\* exec.ErrNotFound, the sentinel the code compares the start error with
ExecErrNotFound == Err("exec.ErrNotFound")

\* ------------------------------------------------------------- Go strings
Slash == "/"
Dot == "."

RECURSIVE Digits(_)
\* fmt.Sprintf("%d", n) for an unsigned n
Digits(n) ==
    LET d == <<"0", "1", "2", "3", "4", "5", "6", "7", "8", "9">>
    IN  IF n < 10 THEN <<d[n + 1]>> ELSE Digits(n \div 10) \o <<d[(n % 10) + 1]>>

\* fmt.Sprintf("%dx%d", w, h)
SprintfSize(w, h) == Digits(w) \o <<"x">> \o Digits(h)

RECURSIVE StripTrailingSlashes(_)
StripTrailingSlashes(p) ==
    IF Len(p) > 0 /\ p[Len(p)] = Slash
    THEN StripTrailingSlashes(SubSeq(p, 1, Len(p) - 1))
    ELSE p

\* Index of the last "/" of p, 0 when there is none.
LastSlash(p) ==
    LET S == {i \in 1..Len(p) : p[i] = Slash}
    IN  IF S = {} THEN 0 ELSE CHOOSE i \in S : \A j \in S : j <= i

\* Mutant: the directories are kept.
BaseKeepDir(path) == path

\* path/filepath.Base
Base(path) ==
    IF path = <<>> THEN <<Dot>>
    ELSE LET p == StripTrailingSlashes(path)
             q == SubSeq(p, LastSlash(p) + 1, Len(p))
         IN  IF q = <<>> THEN <<Slash>> ELSE q

\* path/filepath.Ext: the suffix from the last "." of the last path element
Ext(path) ==
    LET D == {i \in (LastSlash(path) + 1)..Len(path) : path[i] = Dot}
    IN  IF D = {} THEN <<>>
        ELSE SubSeq(path, CHOOSE i \in D : \A j \in D : j <= i, Len(path))

HasSuffix(s, suffix) ==
    /\ Len(s) >= Len(suffix)
    /\ SubSeq(s, Len(s) - Len(suffix) + 1, Len(s)) = suffix

\* strings.TrimSuffix
TrimSuffix(s, suffix) ==
    IF HasSuffix(s, suffix) THEN SubSeq(s, 1, Len(s) - Len(suffix)) ELSE s

FrameSuffix == <<"-", "%", "0", "3", "d", ".", "j", "p", "e", "g">>
MP4Suffix == <<".", "m", "p", "4">>

resolveOutputFrameFileFormat(filePath) ==
    LET baseFileName == Base(filePath)
    IN  TrimSuffix(baseFileName, Ext(baseFileName)) \o FrameSuffix

resolveOutputMP4FileFormat(filePath) ==
    LET baseFileName == Base(filePath)
    IN  TrimSuffix(baseFileName, Ext(baseFileName)) \o MP4Suffix

\* Argument literals.
ArgI == <<"-", "i">>
ArgR == <<"-", "r">>
ArgS == <<"-", "s">>
ArgF == <<"-", "f">>
ArgY == <<"-", "y">>
ArgImage2 == <<"i", "m", "a", "g", "e", "2">>

\* ----------------------------------------------------------------- inputs
\* "a.mov", "d/b.c.avi"
FilePaths == { <<"a", ".", "m", "o", "v">>,
               <<"d", "/", "b", ".", "c", ".", "a", "v", "i">> }
\* every file path of at most MaxPathLen characters over "a", "." and "/"
PathChars == {"a", Dot, Slash}
Paths == UNION { [1..n -> PathChars] : n \in 0..MaxPathLen }
\* the frame rate a caller passes in an option of its own: "25"
FrameRates == { <<"2", "5">> }
\* widths and heights a caller passes
Widths == {640}
Heights == {7}

\* Binary paths a caller configures, and what the host holds for each:
\* "ffprobe"/"ffmpeg" are on the search path, "nosuchbin" is not, and
\* "/tmp/noexec" exists without execute permission.
ProbeBinPaths == {"ffprobe", "nosuchbin", "/tmp/noexec"}
FFMPEGBinPaths == {"ffmpeg", "nosuchbin", "/tmp/noexec"}

\* the media file a caller probes: "a.mov"
ProbeFiles == { <<"a", ".", "m", "o", "v">> }

ExtractingImagesOptions ==
    [FrameRate : FrameRates,
     OutputWidth : {NIL} \cup {Ptr(w) : w \in Widths},
     OutputHeight : {NIL} \cup {Ptr(h) : h \in Heights},
     FilePath : FilePaths]

MP4ConvertOptions == [Overwrite : BOOLEAN, filePath : FilePaths]

\* extraFFProbeOptions a caller passes: none, or "-y"
ExtraOptions == { <<>>, <<ArgY>> }

\* context.Context values a caller passes: Background (never done), a
\* context that can still be cancelled, a context already cancelled/expired.
Contexts == { [cancellable |-> FALSE, done |-> FALSE],
              [cancellable |-> TRUE, done |-> FALSE],
              [cancellable |-> TRUE, done |-> TRUE] }
\* time.Duration values a caller passes to the timeout wrappers.
Timeouts == {0, 1}
\* Mutant: the wrapper's context carries no deadline.
WithTimeoutNoDeadline(timeout) == [cancellable |-> FALSE, done |-> FALSE]

\* context.WithTimeout(context.Background(), timeout): already expired when
\* the deadline is not in the future.
WithTimeout(timeout) == [cancellable |-> TRUE, done |-> timeout <= 0]

\* ------------------------------------------------- the external binaries
\* What a subprocess may write to its standard output, in chunks: "{}" is an
\* empty JSON object, "{f}" an object with a "format" member, "x" is no JSON.
Chunks == {"{}", "{f}", "x"}
Outputs == UNION { [1..n -> Chunks] : n \in 0..MaxOut }
StdErrs == { <<>>, <<"E">> }
ExitCodes == {"ok", "fail"}

\* exec.Command(path).Start(): the error the host gives for a binary path.
\* A bare name missing from the search path gives *exec.Error wrapping
\* exec.ErrNotFound; a file that cannot be executed gives *fs.PathError.
StartProcess(binPath) ==
    CASE binPath \in {"ffprobe", "ffmpeg"} -> NilErr
      [] binPath = "nosuchbin" -> Wrap("exec.Error", ExecErrNotFound)
      [] OTHER -> Wrap("fs.PathError", Err("EACCES"))

\* Whether Start already fails in exec.Command's path lookup.
LookPathFails(binPath) == binPath = "nosuchbin"

\* cmd.Wait(): nil on exit status 0, *exec.ExitError otherwise.
WaitError(status) == IF status = "ok" THEN NilErr ELSE Err("exec.ExitError")

\* os.Process.Kill(): a process that Wait has reaped gives
\* os.ErrProcessDone; the signal to a live or an unreaped child succeeds.
KillError(p) == IF p = "reaped" THEN Err("os.ErrProcessDone") ELSE NilErr

\* What SIGKILL does to the subprocess's status at the moment it is sent: a
\* running subprocess has the signal pending, one that has exited keeps its
\* exit status.
Signal(p, status) == IF p = "running" THEN "signalled" ELSE status

\* json.Unmarshal(bytes, &ProbeData{}): the decoded value and the error.
\* The input must be exactly one JSON value (empty input, text that is no
\* JSON and text after the top-level value are syntax errors), and invalid
\* input is rejected before anything is stored.
ProbeDataZero == [format |-> FALSE]
Unmarshal(bytes) ==
    CASE bytes = <<"{}">> -> [data |-> ProbeDataZero, err |-> NilErr]
      [] bytes = <<"{f}">> -> [data |-> [format |-> TRUE], err |-> NilErr]
      [] OTHER -> [data |-> ProbeDataZero, err |-> Err("json.SyntaxError")]

\* ------------------------------------------------------------------ state
VARIABLES
    ffprobeBinPath, ffmpegBinPath, extractingImageOption, mp4ConvertOption,
    ops, pc, fn, wrapper, ctxCancellable, ctxDone,
    outputFileFormat, resize, args, reads,
    proc, procState, outputBuf, stdErr,
    waiter, waitErr, done,
    ret,
    spawned, startErr, kills, killErr, branch, runErr, decoded,
    doneWhileRunning, exitedFirst,
    lastExtractSet, lastMP4Set, ctxAtEntry

\* The four package variables.
globals == <<ffprobeBinPath, ffmpegBinPath, extractingImageOption, mp4ConvertOption>>
\* What the caller passed: the most recent option setter call of each slot
\* with its argument, and whether the running call's context was done when
\* the call was made.
callerVars == <<lastExtractSet, lastMP4Set, ctxAtEntry>>
cfgVars == <<globals, callerVars>>
ctxVars == <<ctxCancellable, ctxDone>>
localVars == <<outputFileFormat, resize, args, reads>>
procVars == <<proc, procState, outputBuf, stdErr>>
waitVars == <<waiter, waitErr, done>>
histVars == <<spawned, startErr, kills, killErr, branch, runErr, decoded,
              doneWhileRunning, exitedFirst>>
vars == <<cfgVars, ops, pc, fn, wrapper, ctxVars, localVars, procVars,
          waitVars, ret, histVars>>

ProbeFns == {"GetProbeDataContext", "GetProbeDataOptions"}
RaceFns == {"GetProbeDataContext", "ExtractingImagesContext", "ConvertToMP4Context"}

\* No call has been made yet.
Idle ==
    /\ pc = "idle"
    /\ fn = "none"
    /\ wrapper = FALSE
    /\ ctxCancellable = FALSE
    /\ ctxDone = FALSE
    /\ outputFileFormat = <<>>
    /\ resize = FALSE
    /\ args = <<>>
    /\ reads = <<>>
    /\ proc = "none"
    /\ procState = "none"
    /\ outputBuf = <<>>
    /\ stdErr = <<>>
    /\ waiter = "none"
    /\ waitErr = NilErr
    /\ done = <<>>
    /\ ret = NIL
    /\ spawned = 0
    /\ startErr = NilErr
    /\ kills = 0
    /\ killErr = NilErr
    /\ branch = "none"
    /\ runErr = NilErr
    /\ decoded = FALSE
    /\ doneWhileRunning = FALSE
    /\ exitedFirst = FALSE
    /\ ctxAtEntry = FALSE

Init ==
    /\ ffprobeBinPath = "ffprobe"
    /\ ffmpegBinPath = "ffmpeg"
    /\ extractingImageOption = NIL
    /\ mp4ConvertOption = NIL
    /\ lastExtractSet = <<"none">>
    /\ lastMP4Set = <<"none">>
    /\ ops = 0
    /\ Idle

\* No call is executing, and the previous call's waiter and subprocess are
\* finished: the program issues its next API operation.
Quiescent ==
    /\ pc \in {"idle", "returned"}
    /\ waiter \in {"none", "finished"}
    /\ proc # "running"
    /\ ops < MaxOps

\* The subprocess, waiter and bookkeeping of a finished call are dead once
\* the next operation begins.
FreshCall ==
    /\ proc' = "none"
    /\ procState' = "none"
    /\ outputBuf' = <<>>
    /\ stdErr' = <<>>
    /\ waiter' = "none"
    /\ waitErr' = NilErr
    /\ done' = <<>>
    /\ spawned' = 0
    /\ startErr' = NilErr
    /\ kills' = 0
    /\ killErr' = NilErr
    /\ branch' = "none"
    /\ runErr' = NilErr
    /\ decoded' = FALSE
    /\ doneWhileRunning' = FALSE
    /\ exitedFirst' = FALSE

\* A setter runs between calls.
SetterStep ==
    /\ Quiescent
    /\ ops' = ops + 1
    /\ pc' = "idle"
    /\ fn' = "none"
    /\ wrapper' = FALSE
    /\ ctxCancellable' = FALSE
    /\ ctxDone' = FALSE
    /\ outputFileFormat' = <<>>
    /\ resize' = FALSE
    /\ args' = <<>>
    /\ reads' = <<>>
    /\ ret' = NIL
    /\ ctxAtEntry' = FALSE
    /\ FreshCall

\* ---------------------------------------------------------------- setters
SetFFProbeBinPath(newBinPath) ==
    /\ SetterStep
    /\ ffprobeBinPath' = newBinPath
    /\ UNCHANGED <<ffmpegBinPath, extractingImageOption, mp4ConvertOption,
                   lastExtractSet, lastMP4Set>>

SetFFMPEGBinPath(newBinPath) ==
    /\ SetterStep
    /\ ffmpegBinPath' = newBinPath
    /\ UNCHANGED <<ffprobeBinPath, extractingImageOption, mp4ConvertOption,
                   lastExtractSet, lastMP4Set>>

DefaultExtractingImagesOption(filePath) ==
    /\ SetterStep
    /\ extractingImageOption' =
           Ptr([FrameRate |-> <<"1">>, OutputWidth |-> NIL,
                OutputHeight |-> NIL, FilePath |-> filePath])
    /\ lastExtractSet' = <<"Default", filePath>>
    /\ UNCHANGED <<ffprobeBinPath, ffmpegBinPath, mp4ConvertOption, lastMP4Set>>

\* Mutant: a slot that is already set keeps its value.
NewExtractingImagesOptionSetOnce(option) ==
    /\ SetterStep
    /\ extractingImageOption' =
           IF extractingImageOption = NIL THEN option ELSE extractingImageOption
    /\ lastExtractSet' = <<"New", option>>
    /\ UNCHANGED <<ffprobeBinPath, ffmpegBinPath, mp4ConvertOption, lastMP4Set>>

NewExtractingImagesOption(option) ==
    /\ SetterStep
    /\ extractingImageOption' = option
    /\ lastExtractSet' = <<"New", option>>
    /\ UNCHANGED <<ffprobeBinPath, ffmpegBinPath, mp4ConvertOption, lastMP4Set>>

\* Mutant: the helper also clears the extraction slot.
DefaultMP4ConvertOptionClearsExtract(filePath) ==
    /\ SetterStep
    /\ mp4ConvertOption' = Ptr([Overwrite |-> TRUE, filePath |-> filePath])
    /\ extractingImageOption' = NIL
    /\ lastMP4Set' = <<"Default", filePath>>
    /\ UNCHANGED <<ffprobeBinPath, ffmpegBinPath, lastExtractSet>>

DefaultMP4ConvertOption(filePath) ==
    /\ SetterStep
    /\ mp4ConvertOption' = Ptr([Overwrite |-> TRUE, filePath |-> filePath])
    /\ lastMP4Set' = <<"Default", filePath>>
    /\ UNCHANGED <<ffprobeBinPath, ffmpegBinPath, extractingImageOption,
                   lastExtractSet>>

NewMP4ConvertOption(option) ==
    /\ SetterStep
    /\ mp4ConvertOption' = option
    /\ lastMP4Set' = <<"New", option>>
    /\ UNCHANGED <<ffprobeBinPath, ffmpegBinPath, extractingImageOption,
                   lastExtractSet>>

\* ------------------------------------------------------- runner helpers
\* A public entry point is invoked with context ctx; w tells a timeout
\* wrapper made the context.
Invoke(f, w, ctx) ==
    /\ Quiescent
    /\ ops' = ops + 1
    /\ fn' = f
    /\ wrapper' = w
    /\ ctxCancellable' = ctx.cancellable
    /\ ctxAtEntry' = ctx.done
    /\ FreshCall
    /\ UNCHANGED <<globals, lastExtractSet, lastMP4Set>>

\* return data, err.  A timeout wrapper's deferred cancel() then runs.
Return(d, e) ==
    /\ ret' = Ptr([data |-> d, err |-> e])
    /\ pc' = "returned"

DeferredCancel == ctxDone' = (ctxDone \/ wrapper)

\* Mutant: the nil check is missing.
NotConfiguredNever(option) == FALSE

\* if <option> == nil
NotConfigured(option) == option = NIL

\* if err == exec.ErrNotFound
IsErrNotFound(err) == err = ExecErrNotFound

\* Mutant: || in place of &&.
ResizeEither(o) == o.OutputWidth # NIL \/ o.OutputHeight # NIL

\* resize := OutputWidth != nil && OutputHeight != nil
Resize(o) == o.OutputWidth # NIL /\ o.OutputHeight # NIL

\* The two args literals of ExtractingImagesContext.
ExtractArgs(o, rs, out) ==
    IF rs
    THEN << ArgI, o.FilePath, ArgR, o.FrameRate,
            ArgS, SprintfSize(Deref(o.OutputWidth), Deref(o.OutputHeight)),
            ArgF, ArgImage2, out >>
    ELSE << ArgI, o.FilePath, ArgR, o.FrameRate, ArgF, ArgImage2, out >>

\* Mutant: "-y" whatever the Overwrite flag says.
ConvertArgsAlwaysY(o, out) == << ArgI, o.filePath, out, ArgY >>

\* The args of ConvertToMP4Context.
ConvertArgs(o, out) ==
    LET a == << ArgI, o.filePath, out >>
    IN  IF o.Overwrite THEN Append(a, ArgY) ELSE a

ArgV == <<"-", "v">>
ArgQuiet == <<"q", "u", "i", "e", "t">>
ArgLogLevel == <<"-", "l", "o", "g", "l", "e", "v", "e", "l">>
ArgFatal == <<"f", "a", "t", "a", "l">>
ArgPrintFormat == <<"-", "p", "r", "i", "n", "t", "_", "f", "o", "r", "m", "a", "t">>
ArgJson == <<"j", "s", "o", "n">>
ArgShowFormat == <<"-", "s", "h", "o", "w", "_", "f", "o", "r", "m", "a", "t">>
ArgShowStreams == <<"-", "s", "h", "o", "w", "_", "s", "t", "r", "e", "a", "m", "s">>

ProbeArgs(filePath) ==
    << ArgV, ArgQuiet, ArgPrintFormat, ArgJson, ArgShowFormat, ArgShowStreams, filePath >>

ProbeOptionsArgs(file, extra) ==
    Append(<< ArgLogLevel, ArgFatal, ArgPrintFormat, ArgJson,
              ArgShowFormat, ArgShowStreams >> \o extra, file)

\* The binary a function executes, and its "not found" sentinel.
BinPathOf(f) == IF f \in ProbeFns THEN ffprobeBinPath ELSE ffmpegBinPath
NotFoundOf(f) == IF f \in ProbeFns THEN ErrFFProbeNotFound ELSE ErrFFMPEGNotFound

\* Mutant: ErrTimeout whatever the kill reported.
CancelResultAlwaysTimeout(kerr) == ErrTimeout

\* select, case <-ctx.Done(): what the call returns for the kill's result.
CancelResult(kerr) == IF kerr = NilErr THEN ErrTimeout ELSE kerr

\* Mutant: return nil, err on a decode failure.
DecodeResultNilOnError(bytes) ==
    LET u == Unmarshal(bytes)
    IN  [data |-> IF u.err # NilErr THEN NIL ELSE Ptr(u.data), err |-> u.err]

\* data = &ProbeData{}; err = json.Unmarshal(...); return data, err
DecodeResult(bytes) ==
    LET u == Unmarshal(bytes)
    IN  [data |-> Ptr(u.data), err |-> u.err]

\* GetProbeDataOptions: err = json.Unmarshal(...), wrapped on failure.
DecodeResultOptions(bytes) ==
    LET u == Unmarshal(bytes)
    IN  [data |-> Ptr(u.data),
         err |-> IF u.err # NilErr
                 THEN Wrap("error unmarshalling output", u.err) ELSE NilErr]

\* Mutant: the standard-error check is missing.
StdErrIgnored(e) == FALSE

\* if stdErr.String() != ""
StdErrNotEmpty(e) == e # <<>>

\* ------------------------------------------------------ frame extraction
\* ExtractingImagesContext up to its nil check.
ExtractingImagesEnter(w, ctx) ==
    /\ Invoke("ExtractingImagesContext", w, ctx)
    /\ outputFileFormat' = <<>>
    /\ resize' = FALSE
    /\ args' = <<>>
    /\ reads' = <<>>
    /\ IF NotConfigured(extractingImageOption)
       THEN /\ Return(NIL, ErrOptionNotSet)
            /\ ctxDone' = (ctx.done \/ w)
       ELSE /\ pc' = "e65"
            /\ ret' = NIL
            /\ ctxDone' = ctx.done

ExtractingImagesContext(ctx) == ExtractingImagesEnter(FALSE, ctx)

ExtractingImages(timeout) == ExtractingImagesEnter(TRUE, WithTimeout(timeout))

\* What a step of a running call leaves alone.
CallFrame == UNCHANGED <<cfgVars, ops, fn, wrapper, ctxCancellable>>

\* What a step that reads the option slot leaves alone.
ReadFrame ==
    /\ CallFrame
    /\ UNCHANGED <<ctxDone, procVars, waitVars, ret, histVars>>

\* A nil pointer is dereferenced: the goroutine panics.
Panic == pc' = "panicked"

\* outputFileFormat := resolveOutputFrameFileFormat(extractingImageOption.FilePath)
ExtractOutputName ==
    /\ pc = "e65"
    /\ IF extractingImageOption = NIL
       THEN /\ Panic
            /\ UNCHANGED outputFileFormat
       ELSE /\ outputFileFormat' =
                   resolveOutputFrameFileFormat(Deref(extractingImageOption).FilePath)
            /\ pc' = "e66w"
    /\ ReadFrame
    /\ UNCHANGED <<resize, args, reads>>

\* resize := extractingImageOption.OutputWidth != nil && ...: the left
\* operand; a nil width decides the result without reading the height.
ExtractResizeWidth ==
    /\ pc = "e66w"
    /\ IF extractingImageOption = NIL
       THEN /\ Panic
            /\ UNCHANGED <<resize, reads>>
       ELSE IF Deref(extractingImageOption).OutputWidth = NIL
            THEN /\ resize' = FALSE
                 /\ pc' = "e71"
                 /\ UNCHANGED reads
            ELSE /\ reads' = <<Deref(extractingImageOption).OutputWidth>>
                 /\ pc' = "e66h"
                 /\ UNCHANGED resize
    /\ ReadFrame
    /\ UNCHANGED <<outputFileFormat, args>>

\* ... && extractingImageOption.OutputHeight != nil: the right operand.
ExtractResizeHeight ==
    /\ pc = "e66h"
    /\ IF extractingImageOption = NIL
       THEN /\ Panic
            /\ UNCHANGED <<resize, reads>>
       ELSE /\ resize' = Resize([OutputWidth |-> reads[1],
                                 OutputHeight |->
                                     Deref(extractingImageOption).OutputHeight])
            /\ reads' = <<>>
            /\ pc' = "e71"
    /\ ReadFrame
    /\ UNCHANGED <<outputFileFormat, args>>

\* Mutant: a nil slot is checked again and reported as an error.
ExtractArgPathChecksNil ==
    /\ pc = "e71"
    /\ IF extractingImageOption = NIL
       THEN /\ Return(NIL, ErrOptionNotSet)
            /\ UNCHANGED reads
       ELSE /\ reads' = <<Deref(extractingImageOption).FilePath>>
            /\ pc' = "e72"
            /\ UNCHANGED ret
    /\ CallFrame
    /\ UNCHANGED <<ctxDone, procVars, waitVars, histVars>>
    /\ UNCHANGED <<outputFileFormat, resize, args>>

\* args = []string{"-i", extractingImageOption.FilePath, ...
ExtractArgPath ==
    /\ pc = "e71"
    /\ IF extractingImageOption = NIL
       THEN /\ Panic
            /\ UNCHANGED reads
       ELSE /\ reads' = <<Deref(extractingImageOption).FilePath>>
            /\ pc' = "e72"
    /\ ReadFrame
    /\ UNCHANGED <<outputFileFormat, resize, args>>

\* ... "-r", extractingImageOption.FrameRate, ...: without resize the
\* literal is complete and args is assigned.
ExtractArgRate ==
    /\ pc = "e72"
    /\ IF extractingImageOption = NIL
       THEN /\ Panic
            /\ UNCHANGED <<args, reads>>
       ELSE IF resize
            THEN /\ reads' = Append(reads, Deref(extractingImageOption).FrameRate)
                 /\ pc' = "e73w"
                 /\ UNCHANGED args
            ELSE /\ args' = ExtractArgs(
                                [FilePath |-> reads[1],
                                 FrameRate |-> Deref(extractingImageOption).FrameRate,
                                 OutputWidth |-> NIL, OutputHeight |-> NIL],
                                FALSE, outputFileFormat)
                 /\ reads' = <<>>
                 /\ pc' = "start"
    /\ ReadFrame
    /\ UNCHANGED <<outputFileFormat, resize>>

\* ... "-s", fmt.Sprintf("%dx%d", *extractingImageOption.OutputWidth, ...
ExtractArgWidth ==
    /\ pc = "e73w"
    /\ IF \/ extractingImageOption = NIL
          \/ Deref(extractingImageOption).OutputWidth = NIL
       THEN /\ Panic
            /\ UNCHANGED reads
       ELSE /\ reads' = Append(reads, Deref(extractingImageOption).OutputWidth)
            /\ pc' = "e73h"
    /\ ReadFrame
    /\ UNCHANGED <<outputFileFormat, resize, args>>

\* ... *extractingImageOption.OutputHeight), "-f", "image2", outputFileFormat}
ExtractArgHeight ==
    /\ pc = "e73h"
    /\ IF \/ extractingImageOption = NIL
          \/ Deref(extractingImageOption).OutputHeight = NIL
       THEN /\ Panic
            /\ UNCHANGED <<args, reads>>
       ELSE /\ args' = ExtractArgs(
                           [FilePath |-> reads[1], FrameRate |-> reads[2],
                            OutputWidth |-> reads[3],
                            OutputHeight |->
                                Deref(extractingImageOption).OutputHeight],
                           TRUE, outputFileFormat)
            /\ reads' = <<>>
            /\ pc' = "start"
    /\ ReadFrame
    /\ UNCHANGED <<outputFileFormat, resize>>

\* ------------------------------------------------------- MP4 conversion
ConvertToMP4Enter(w, ctx) ==
    /\ Invoke("ConvertToMP4Context", w, ctx)
    /\ outputFileFormat' = <<>>
    /\ resize' = FALSE
    /\ args' = <<>>
    /\ reads' = <<>>
    /\ IF NotConfigured(mp4ConvertOption)
       THEN /\ Return(NIL, ErrOptionNotSet)
            /\ ctxDone' = (ctx.done \/ w)
       ELSE /\ pc' = "c158"
            /\ ret' = NIL
            /\ ctxDone' = ctx.done

ConvertToMP4Context(ctx) == ConvertToMP4Enter(FALSE, ctx)

ConvertToMP4(timeout) == ConvertToMP4Enter(TRUE, WithTimeout(timeout))

\* outputFileFormat := resolveOutputMP4FileFormat(mp4ConvertOption.filePath)
ConvertOutputName ==
    /\ pc = "c158"
    /\ IF mp4ConvertOption = NIL
       THEN /\ Panic
            /\ UNCHANGED outputFileFormat
       ELSE /\ outputFileFormat' =
                   resolveOutputMP4FileFormat(Deref(mp4ConvertOption).filePath)
            /\ pc' = "c160"
    /\ ReadFrame
    /\ UNCHANGED <<resize, args, reads>>

\* args := []string{"-i", mp4ConvertOption.filePath, outputFileFormat}
ConvertArgPath ==
    /\ pc = "c160"
    /\ IF mp4ConvertOption = NIL
       THEN /\ Panic
            /\ UNCHANGED reads
       ELSE /\ reads' = <<Deref(mp4ConvertOption).filePath>>
            /\ pc' = "c165"
    /\ ReadFrame
    /\ UNCHANGED <<outputFileFormat, resize, args>>

\* if mp4ConvertOption.Overwrite { args = append(args, "-y") }
ConvertOverwrite ==
    /\ pc = "c165"
    /\ IF mp4ConvertOption = NIL
       THEN /\ Panic
            /\ UNCHANGED <<args, reads>>
       ELSE /\ args' = ConvertArgs(
                           [filePath |-> reads[1],
                            Overwrite |-> Deref(mp4ConvertOption).Overwrite],
                           outputFileFormat)
            /\ reads' = <<>>
            /\ pc' = "start"
    /\ ReadFrame
    /\ UNCHANGED <<outputFileFormat, resize>>

\* ---------------------------------------------------------------- probing
GetProbeDataEnter(w, ctx, filePath) ==
    /\ Invoke("GetProbeDataContext", w, ctx)
    /\ outputFileFormat' = <<>>
    /\ resize' = FALSE
    /\ args' = ProbeArgs(filePath)
    /\ reads' = <<>>
    /\ pc' = "start"
    /\ ret' = NIL
    /\ ctxDone' = ctx.done

GetProbeDataContext(ctx, filePath) == GetProbeDataEnter(FALSE, ctx, filePath)

GetProbeData(filePath, timeout) ==
    GetProbeDataEnter(TRUE, WithTimeout(timeout), filePath)

\* --------------------------------------------- the race-based runner body
\* Mutant: a context that is already done is noticed before the start.
StartChecksContext ==
    /\ pc = "start"
    /\ fn \in RaceFns
    /\ LET err == StartProcess(BinPathOf(fn))
       IN  IF ctxDone
           THEN /\ Return(NIL, ErrTimeout)
                /\ DeferredCancel
                /\ UNCHANGED <<startErr, proc, waiter, spawned, doneWhileRunning>>
           ELSE /\ startErr' = err
                /\ IF err # NilErr
                   THEN /\ Return(NIL, IF IsErrNotFound(err) THEN NotFoundOf(fn) ELSE err)
                        /\ DeferredCancel
                        /\ UNCHANGED <<proc, waiter, spawned, doneWhileRunning>>
                   ELSE /\ proc' = "running"
                        /\ spawned' = spawned + 1
                        /\ waiter' = "waiting"
                        /\ doneWhileRunning' = ctxDone
                        /\ pc' = "select"
                        /\ UNCHANGED <<ret, ctxDone>>
    /\ CallFrame
    /\ UNCHANGED <<outputFileFormat, resize, args, reads, procState, outputBuf, stdErr,
                   waitErr, done, kills, killErr, branch, runErr, decoded,
                   exitedFirst>>

\* cmd.Start(); on success make(chan error, 1) and go func(){done <- cmd.Wait()}
Start ==
    /\ pc = "start"
    /\ fn \in RaceFns
    /\ LET err == StartProcess(BinPathOf(fn))
       IN  /\ startErr' = err
           /\ IF IsErrNotFound(err)
              THEN /\ Return(NIL, NotFoundOf(fn))
                   /\ DeferredCancel
                   /\ UNCHANGED <<proc, waiter, spawned, doneWhileRunning>>
              ELSE IF err # NilErr
              THEN /\ Return(NIL, err)
                   /\ DeferredCancel
                   /\ UNCHANGED <<proc, waiter, spawned, doneWhileRunning>>
              ELSE /\ proc' = "running"
                   /\ spawned' = spawned + 1
                   /\ waiter' = "waiting"
                   /\ doneWhileRunning' = ctxDone
                   /\ pc' = "select"
                   /\ UNCHANGED <<ret, ctxDone>>
    /\ CallFrame
    /\ UNCHANGED <<outputFileFormat, resize, args, reads, procState, outputBuf, stdErr,
                   waitErr, done, kills, killErr, branch, runErr, decoded,
                   exitedFirst>>

\* Mutant: ErrTimeout is returned without killing the subprocess.
SelectCancelNoKill ==
    /\ pc = "select"
    /\ ctxDone
    /\ kills' = kills + 1
    /\ killErr' = NilErr
    /\ Return(NIL, ErrTimeout)
    /\ branch' = "cancel"
    /\ DeferredCancel
    /\ CallFrame
    /\ UNCHANGED <<outputFileFormat, resize, args, reads, procVars, waitVars,
                   spawned, startErr, runErr, decoded, doneWhileRunning,
                   exitedFirst>>

\* select, case <-ctx.Done(): kill, then ErrTimeout or the kill's error.
\* Kill() only sends the signal: a running subprocess is still running,
\* with the signal pending, in the state in which the call returns.
SelectCancel ==
    /\ pc = "select"
    /\ ctxDone
    /\ LET kerr == KillError(proc)
       IN  /\ kills' = kills + 1
           /\ killErr' = kerr
           /\ procState' = Signal(proc, procState)
           /\ UNCHANGED proc
           /\ Return(NIL, CancelResult(kerr))
    /\ branch' = "cancel"
    /\ DeferredCancel
    /\ CallFrame
    /\ UNCHANGED <<outputFileFormat, resize, args, reads, outputBuf, stdErr, waitVars,
                   spawned, startErr, runErr, decoded, doneWhileRunning,
                   exitedFirst>>

\* Mutant: a wait error starts the command again.
SelectDoneRetry ==
    /\ pc = "select"
    /\ done # <<>>
    /\ LET err == Head(done)
       IN  /\ runErr' = err
           /\ IF err # NilErr
              THEN pc' = "start" /\ UNCHANGED <<ret, decoded>>
              ELSE IF fn = "GetProbeDataContext"
              THEN /\ Return(DecodeResult(outputBuf).data, DecodeResult(outputBuf).err)
                   /\ decoded' = TRUE
              ELSE Return(NIL, NilErr) /\ UNCHANGED decoded
    /\ done' = Tail(done)
    /\ branch' = "done"
    /\ DeferredCancel
    /\ CallFrame
    /\ UNCHANGED <<outputFileFormat, resize, args, reads, procVars, waiter, waitErr,
                   spawned, startErr, kills, killErr, doneWhileRunning,
                   exitedFirst>>

\* select, case err = <-done: the wait error, or success (the probe decodes)
SelectDone ==
    /\ pc = "select"
    /\ done # <<>>
    /\ LET err == Head(done)
       IN  /\ runErr' = err
           /\ IF err # NilErr
              THEN Return(NIL, err) /\ UNCHANGED decoded
              ELSE IF fn = "GetProbeDataContext"
              THEN /\ Return(DecodeResult(outputBuf).data, DecodeResult(outputBuf).err)
                   /\ decoded' = TRUE
              ELSE Return(NIL, NilErr) /\ UNCHANGED decoded
    /\ done' = Tail(done)
    /\ branch' = "done"
    /\ DeferredCancel
    /\ CallFrame
    /\ UNCHANGED <<outputFileFormat, resize, args, reads, procVars, waiter, waitErr,
                   spawned, startErr, kills, killErr, doneWhileRunning,
                   exitedFirst>>

\* The waiter goroutine: cmd.Wait() returns once the subprocess has exited
WaiterWait ==
    /\ waiter = "waiting"
    /\ proc = "exited"
    /\ proc' = "reaped"
    /\ waitErr' = WaitError(procState)
    /\ waiter' = "sending"
    /\ UNCHANGED <<cfgVars, ops, pc, fn, wrapper, ctxVars, localVars, procState,
                   outputBuf, stdErr, done, ret, histVars>>

\* Mutant: done is unbuffered, the send needs the caller at its select.
WaiterSendUnbuffered ==
    /\ waiter = "sending"
    /\ pc = "select"
    /\ Len(done) < 1
    /\ done' = Append(done, waitErr)
    /\ waiter' = "finished"
    /\ UNCHANGED <<cfgVars, ops, pc, fn, wrapper, ctxVars, localVars, procVars,
                   waitErr, ret, histVars>>

\* The waiter goroutine: done <- err, on a channel of capacity 1
WaiterSend ==
    /\ waiter = "sending"
    /\ Len(done) < 1
    /\ done' = Append(done, waitErr)
    /\ waiter' = "finished"
    /\ UNCHANGED <<cfgVars, ops, pc, fn, wrapper, ctxVars, localVars, procVars,
                   waitErr, ret, histVars>>

\* -------------------------------------------------------- the environment
\* The context's deadline passes, or its owner cancels it.
CtxFire ==
    /\ pc \notin {"idle", "returned", "panicked"}
    /\ ctxCancellable
    /\ ~ctxDone
    /\ ctxDone' = TRUE
    /\ doneWhileRunning' = (doneWhileRunning \/ proc = "running")
    /\ UNCHANGED <<cfgVars, ops, pc, fn, wrapper, ctxCancellable, localVars,
                   procVars, waitVars, ret, spawned, startErr, kills, killErr,
                   branch, runErr, decoded, exitedFirst>>

\* The subprocess exits on its own, having written out and errout.  Only the
\* probe functions read standard output, only GetProbeDataOptions captures
\* standard error.
ProcExit(code, out, errout) ==
    /\ proc = "running"
    /\ fn \notin ProbeFns => out = <<>>
    /\ fn # "GetProbeDataOptions" => errout = <<>>
    /\ proc' = "exited"
    /\ procState' = code
    /\ outputBuf' = out
    /\ stdErr' = errout
    /\ exitedFirst' = ~ctxDone
    /\ UNCHANGED <<cfgVars, ops, pc, fn, wrapper, ctxVars, localVars, waitVars,
                   ret, spawned, startErr, kills, killErr, branch, runErr,
                   decoded, doneWhileRunning>>

\* The pending SIGKILL ends the subprocess.
ProcKilled ==
    /\ proc = "running"
    /\ procState = "signalled"
    /\ proc' = "exited"
    /\ procState' = "killed"
    /\ UNCHANGED <<cfgVars, ops, pc, fn, wrapper, ctxVars, localVars, outputBuf,
                   stdErr, waitVars, ret, histVars>>

\* ------------------------------------------------- GetProbeDataOptions
\* args := append(...); cmd := exec.CommandContext(ctx, ffprobeBinPath, args...)
GetProbeDataOptions(ctx, file, extraFFProbeOptions) ==
    /\ Invoke("GetProbeDataOptions", FALSE, ctx)
    /\ outputFileFormat' = <<>>
    /\ resize' = FALSE
    /\ args' = ProbeOptionsArgs(file, extraFFProbeOptions)
    /\ reads' = <<>>
    /\ pc' = "o_run"
    /\ ret' = NIL
    /\ ctxDone' = ctx.done

\* The error of the Start half of cmd.Run() under exec.CommandContext: the
\* path lookup's error, else the context's error when it is already done,
\* else the error of starting the process.
StartContextError(binPath, ctxIsDone) ==
    IF LookPathFails(binPath) THEN StartProcess(binPath)
    ELSE IF ctxIsDone THEN Err("context.Err")
    ELSE StartProcess(binPath)

\* return nil, fmt.Errorf("error running ffprobe [%s] %w", stdErr.String(), err)
RunFailure(err) == Wrap("error running ffprobe", err)

\* The Start half of err = cmd.Run()
OptionsStart ==
    /\ pc = "o_run"
    /\ LET err == StartContextError(ffprobeBinPath, ctxDone)
       IN  /\ startErr' = err
           /\ IF err # NilErr
              THEN /\ runErr' = err
                   /\ Return(NIL, RunFailure(err))
                   /\ UNCHANGED <<proc, spawned>>
              ELSE /\ proc' = "running"
                   /\ spawned' = spawned + 1
                   /\ pc' = "o_wait"
                   /\ UNCHANGED <<ret, runErr>>
    /\ CallFrame
    /\ UNCHANGED <<ctxDone, outputFileFormat, resize, args, reads, procState, outputBuf,
                   stdErr, waitVars, kills, killErr, branch, decoded,
                   doneWhileRunning, exitedFirst>>

\* exec.CommandContext: once the context is done, os/exec kills the process.
OptionsCtxKill ==
    /\ pc = "o_wait"
    /\ ctxDone
    /\ kills = 0
    /\ proc \in {"running", "exited"}
    /\ kills' = kills + 1
    /\ killErr' = KillError(proc)
    /\ procState' = Signal(proc, procState)
    /\ UNCHANGED proc
    /\ CallFrame
    /\ UNCHANGED <<pc, ctxDone, outputFileFormat, resize, args, reads, outputBuf, stdErr,
                   waitVars, ret, spawned, startErr, branch, runErr, decoded,
                   doneWhileRunning, exitedFirst>>

\* The errors the Wait half of cmd.Run() can give.  After a zero exit status
\* that os/exec's kill followed, the toolchain's os/exec reports nil or the
\* context's error.
RunResults(status, killed) ==
    IF WaitError(status) = NilErr /\ killed
    THEN {NilErr, Err("context.Err")}
    ELSE {WaitError(status)}

\* What GetProbeDataOptions returns once cmd.Run() gave err
OptionsResult(err, errText, bytes) ==
    IF err # NilErr THEN [data |-> NIL, err |-> RunFailure(err), decoded |-> FALSE]
    ELSE IF StdErrNotEmpty(errText)
    THEN [data |-> NIL, err |-> Err("ffprobe error"), decoded |-> FALSE]
    ELSE [data |-> DecodeResultOptions(bytes).data,
          err |-> DecodeResultOptions(bytes).err, decoded |-> TRUE]

\* The Wait half of err = cmd.Run(), and the rest of the function
OptionsWait ==
    /\ pc = "o_wait"
    /\ proc = "exited"
    /\ proc' = "reaped"
    /\ \E err \in RunResults(procState, kills > 0) :
          /\ runErr' = err
          /\ Return(OptionsResult(err, stdErr, outputBuf).data,
                    OptionsResult(err, stdErr, outputBuf).err)
          /\ decoded' = OptionsResult(err, stdErr, outputBuf).decoded
    /\ CallFrame
    /\ UNCHANGED <<ctxDone, outputFileFormat, resize, args, reads, procState, outputBuf,
                   stdErr, waitVars, spawned, startErr, kills, killErr, branch,
                   doneWhileRunning, exitedFirst>>

\* ------------------------------------------------------ the specification
Next ==
    \/ \E b \in ProbeBinPaths : SetFFProbeBinPath(b)
    \/ \E b \in FFMPEGBinPaths : SetFFMPEGBinPath(b)
    \/ \E f \in FilePaths : DefaultExtractingImagesOption(f)
    \/ \E o \in {NIL} \cup {Ptr(x) : x \in ExtractingImagesOptions} :
          NewExtractingImagesOption(o)
    \/ \E f \in FilePaths : DefaultMP4ConvertOption(f)
    \/ \E o \in {NIL} \cup {Ptr(x) : x \in MP4ConvertOptions} :
          NewMP4ConvertOption(o)
    \/ \E c \in Contexts : ExtractingImagesContext(c)
    \/ \E t \in Timeouts : ExtractingImages(t)
    \/ ExtractOutputName
    \/ ExtractResizeWidth
    \/ ExtractResizeHeight
    \/ ExtractArgPath
    \/ ExtractArgRate
    \/ ExtractArgWidth
    \/ ExtractArgHeight
    \/ \E c \in Contexts : ConvertToMP4Context(c)
    \/ \E t \in Timeouts : ConvertToMP4(t)
    \/ ConvertOutputName
    \/ ConvertArgPath
    \/ ConvertOverwrite
    \/ \E c \in Contexts, f \in ProbeFiles : GetProbeDataContext(c, f)
    \/ \E f \in ProbeFiles, t \in Timeouts : GetProbeData(f, t)
    \/ \E c \in Contexts, f \in ProbeFiles, x \in ExtraOptions :
          GetProbeDataOptions(c, f, x)
    \/ Start
    \/ SelectCancel
    \/ SelectDone
    \/ WaiterWait
    \/ WaiterSend
    \/ OptionsStart
    \/ OptionsCtxKill
    \/ OptionsWait
    \/ CtxFire
    \/ \E code \in ExitCodes, out \in Outputs, e \in StdErrs : ProcExit(code, out, e)
    \/ ProcKilled

Spec == Init /\ [][Next]_vars

\* ------------------------------------------------------------ properties
Returned == pc = "returned"
RetErr == Deref(ret).err
RetData == Deref(ret).data

\* The option slot a function reads.
SlotOf(f) ==
    IF f = "ExtractingImagesContext" THEN extractingImageOption ELSE mp4ConvertOption

\* C1 as stated: whenever the context is done while the started subprocess
\* of a race-based call is running, the call returns ErrTimeout and the
\* subprocess is not running in the state in which the call returns.
C1_TimeoutWheneverDeadlineFires ==
    (Returned /\ fn \in RaceFns /\ doneWhileRunning) =>
        (RetErr = ErrTimeout /\ proc # "running")

\* The subprocess has ended, or is running with the kill signal pending.
EndedOrSignalled ==
    \/ proc \in {"exited", "reaped"}
    \/ proc = "running" /\ procState = "signalled"

\* C1 as amended: when the context is done while the started subprocess is
\* running, the call returns ErrTimeout exactly when it takes the
\* cancellation branch and the kill succeeds, and then the subprocess has
\* been sent the kill signal: in the state in which the call returns it has
\* ended or is still running with the signal pending; when the kill fails
\* the call returns the kill's error, and when the subprocess exits on its
\* own and the done branch is taken the call returns the outcome of that
\* exit.
C1_TimeoutWhenKilled ==
    (Returned /\ fn \in RaceFns /\ doneWhileRunning) =>
        /\ (branch = "cancel" /\ killErr = NilErr) =>
               (RetErr = ErrTimeout /\ kills = 1 /\ EndedOrSignalled)
        /\ (branch = "cancel" /\ killErr # NilErr) => RetErr = killErr
        /\ branch # "cancel" =>
               /\ branch = "done"
               /\ procState \in ExitCodes
               /\ proc = "reaped"
               /\ RetErr # ErrTimeout
               /\ procState = "fail" => RetErr = Err("exec.ExitError")
        /\ RetErr = ErrTimeout => (kills = 1 /\ EndedOrSignalled)

\* A deadline fired on a running subprocess: the call has sent the kill and
\* returned ErrTimeout, and the subprocess has not ended yet.
C1_Witness ==
    /\ Returned
    /\ fn \in RaceFns
    /\ doneWhileRunning
    /\ ~wrapper
    /\ proc = "running"
    /\ procState = "signalled"
    /\ RetErr = ErrTimeout

\* C2 as stated: when the subprocess of a race-based call exits before the
\* context is done, the call's outcome is that of the exit (success and the
\* decoded output on status zero, the wait error otherwise) and no kill is
\* attempted.
C2_ExitFirstDecides ==
    (Returned /\ fn \in RaceFns /\ exitedFirst) =>
        /\ RetErr # ErrTimeout
        /\ kills = 0
        /\ procState = "fail" => (RetErr = Err("exec.ExitError") /\ RetData = NIL)
        /\ (procState = "ok" /\ fn # "GetProbeDataContext") => RetErr = NilErr
        /\ (procState = "ok" /\ fn = "GetProbeDataContext") =>
               /\ RetErr = Unmarshal(outputBuf).err
               /\ RetData = Ptr(Unmarshal(outputBuf).data)

\* C3: when the cancellation branch is taken, exactly one kill is attempted,
\* the call returns ErrTimeout if and only if the kill reported success and
\* otherwise exactly the kill's error, and it returns neither success nor
\* probe data.
C3_CancelBranchResult ==
    (Returned /\ fn \in RaceFns) =>
        /\ branch = "cancel" =>
               /\ kills = 1
               /\ (RetErr = ErrTimeout) <=> (killErr = NilErr)
               /\ killErr # NilErr => RetErr = killErr
               /\ RetErr # NilErr
               /\ RetData = NIL
        /\ branch # "cancel" => kills = 0

\* The cancellation branch met a subprocess that was already reaped: the
\* kill failed and its error was returned.
C3_Witness ==
    /\ Returned
    /\ branch = "cancel"
    /\ kills = 1
    /\ killErr = Err("os.ErrProcessDone")
    /\ RetErr = killErr

\* C4: an extraction (conversion) call made while its option slot is nil
\* returns the "option not set" error and starts no subprocess, whatever
\* setter and runner calls came before.
C4_NotConfigured ==
    (fn \in {"ExtractingImagesContext", "ConvertToMP4Context"} /\ SlotOf(fn) = NIL) =>
        /\ Returned
        /\ RetErr = ErrOptionNotSet
        /\ spawned = 0
        /\ proc = "none"
        /\ waiter = "none"

\* The third operation of a run is an extraction call on a nil slot.
C4_Witness ==
    /\ fn = "ExtractingImagesContext"
    /\ extractingImageOption = NIL
    /\ ops = 3
    /\ Returned
    /\ RetErr = ErrOptionNotSet

\* A function whose option (if it needs one) is set.
Configured(f) == f \in ProbeFns \/ SlotOf(f) # NIL

\* C5 as stated: with a binary path that cannot be located, the call fails
\* with its tool's "not found" error, no subprocess was started and no
\* result is returned.
C5_BinaryNotFound ==
    (Returned /\ Configured(fn) /\ BinPathOf(fn) = "nosuchbin") =>
        /\ RetErr = NotFoundOf(fn)
        /\ RetData = NIL
        /\ spawned = 0

\* C6: a call starts at most one subprocess and never starts it again; when
\* it returns it has started exactly one if cmd.Start succeeded and none
\* otherwise (not configured, start failure).
C6_OneSubprocess ==
    /\ spawned \in {0, 1}
    /\ spawned = 0 <=> proc = "none"
    /\ Returned =>
           spawned = IF ~Configured(fn) \/ startErr # NilErr THEN 0 ELSE 1

\* A call returned the error of its subprocess's non-zero exit.
C6_Witness ==
    /\ Returned
    /\ spawned = 1
    /\ procState = "fail"
    /\ fn \in RaceFns
    /\ RetErr = Err("exec.ExitError")

\* C7 as stated: GetProbeDataOptions reports a context that is done while
\* its subprocess is running, and the kill that follows, as ErrTimeout.
C7_OptionsTimeout ==
    (Returned /\ fn = "GetProbeDataOptions" /\ doneWhileRunning
        /\ procState = "killed") =>
        (RetErr = ErrTimeout \/ RetErr.wraps = "ErrTimeout")

\* The subprocess of a probe call completed cleanly: it exited with status
\* zero, the call received that (and, for GetProbeDataOptions, no standard
\* error text).
CleanCompletion ==
    IF fn = "GetProbeDataContext"
    THEN branch = "done" /\ procState = "ok"
    ELSE spawned = 1 /\ procState = "ok" /\ runErr = NilErr /\ stdErr = <<>>

\* C8: a probe call returns a non-nil result with a non-nil error exactly
\* when its subprocess completed cleanly and the output failed to decode;
\* every other failure returns a nil result and success a non-nil one.
C8_ResultWithError ==
    (Returned /\ fn \in ProbeFns) =>
        LET decodeFailure == CleanCompletion /\ Unmarshal(outputBuf).err # NilErr
        IN  /\ (RetData # NIL /\ RetErr # NilErr) <=> decodeFailure
            /\ RetErr = NilErr => RetData # NIL
            /\ (RetErr # NilErr /\ ~decodeFailure) => RetData = NIL
            /\ RetErr = NilErr <=> (CleanCompletion /\ ~decodeFailure)

\* GetProbeDataContext returned the empty result together with a syntax
\* error for output that is no JSON.
C8_Witness ==
    /\ Returned
    /\ fn = "GetProbeDataContext"
    /\ outputBuf = <<"x">>
    /\ RetData = Ptr(ProbeDataZero)
    /\ RetErr = Err("json.SyntaxError")

\* C9: when the subprocess of GetProbeDataOptions exits with status zero
\* having written to standard error, the call fails, returns a nil result
\* and does not decode standard output.
C9_StdErrFails ==
    (Returned /\ fn = "GetProbeDataOptions" /\ procState = "ok" /\ stdErr # <<>>) =>
        /\ RetErr # NilErr
        /\ RetData = NIL
        /\ ~decoded
        /\ runErr = NilErr => RetErr = Err("ffprobe error")

\* Valid JSON on standard output, text on standard error, status zero.
C9_Witness ==
    /\ Returned
    /\ fn = "GetProbeDataOptions"
    /\ procState = "ok"
    /\ stdErr = <<"E">>
    /\ outputBuf = <<"{}">>
    /\ RetErr = Err("ffprobe error")

\* C10: the extraction arguments are -i <FilePath> -r <FrameRate>
\* [-s <W>x<H>] -f image2 <pattern>, with -s <W>x<H> present if and only if
\* both OutputWidth and OutputHeight are set; with one of them set the call
\* goes on without the resize argument and without an error of its own.
C10_ExtractArgs ==
    (fn = "ExtractingImagesContext" /\ extractingImageOption # NIL) =>
        LET o == Deref(extractingImageOption)
            both == o.OutputWidth # NIL /\ o.OutputHeight # NIL
            n == IF both THEN 9 ELSE 7
        IN  /\ pc # "panicked"
            /\ pc \in {"start", "select", "returned"} =>
                  /\ Len(args) = n
                  /\ SubSeq(args, 1, 4) = <<ArgI, o.FilePath, ArgR, o.FrameRate>>
                  /\ both => /\ args[5] = ArgS
                             /\ args[6] = Digits(Deref(o.OutputWidth)) \o <<"x">>
                                            \o Digits(Deref(o.OutputHeight))
                  /\ ~both => \A i \in 1..n : args[i] # ArgS
                  /\ SubSeq(args, n - 2, n) =
                         <<ArgF, ArgImage2, resolveOutputFrameFileFormat(o.FilePath)>>
            /\ Returned => RetErr # ErrOptionNotSet

\* Only the width is set: seven arguments, no -s, and the command started.
C10_Witness ==
    /\ fn = "ExtractingImagesContext"
    /\ extractingImageOption # NIL
    /\ Deref(extractingImageOption).OutputWidth = Ptr(640)
    /\ Deref(extractingImageOption).OutputHeight = NIL
    /\ pc = "select"
    /\ spawned = 1
    /\ args = << ArgI, <<"a", ".", "m", "o", "v">>, ArgR, <<"2", "5">>, ArgF,
                 ArgImage2, <<"a", "-", "%", "0", "3", "d", ".", "j", "p", "e", "g">> >>

\* ------------------------------------------------- output names (C11)
\* The output-name functions on every path of Paths: the caller has stored
\* the path p in both option slots with the default helpers, and makes one
\* extraction or conversion call, followed up to the line that derives the
\* output name.
PathInit ==
    /\ ffprobeBinPath = "ffprobe"
    /\ ffmpegBinPath = "ffmpeg"
    /\ \E p \in Paths :
          /\ extractingImageOption =
                 Ptr([FrameRate |-> <<"1">>, OutputWidth |-> NIL,
                      OutputHeight |-> NIL, FilePath |-> p])
          /\ mp4ConvertOption = Ptr([Overwrite |-> TRUE, filePath |-> p])
          /\ lastExtractSet = <<"Default", p>>
          /\ lastMP4Set = <<"Default", p>>
    /\ ops = 2
    /\ Idle

PathNext ==
    \/ \E c \in Contexts : ExtractingImagesContext(c)
    \/ ExtractOutputName
    \/ \E c \in Contexts : ConvertToMP4Context(c)
    \/ ConvertOutputName

PathSpec == PathInit /\ [][PathNext]_vars

\* p has an extension: a "." in its last element (nothing but the
\* extension's own characters follows its last ".").
HasExtension(p) ==
    \E j \in 1..Len(p) :
        p[j] = Dot /\ \A k \in (j + 1)..Len(p) : p[k] \notin {Dot, Slash}

\* The base name of p without directories and without its last extension.
StrippedBaseName(p) ==
    LET j == CHOOSE j \in 1..Len(p) :
                 p[j] = Dot /\ \A k \in (j + 1)..Len(p) : p[k] \notin {Dot, Slash}
        S == {i \in 1..j : p[i] = Slash}
        i == IF S = {} THEN 0 ELSE CHOOSE x \in S : \A y \in S : y <= x
    IN  SubSeq(p, i + 1, j - 1)

NoDirectory(name) == \A i \in 1..Len(name) : name[i] # Slash

\* C11: for every path p with an extension the frame pattern is the base
\* name of p without directories and last extension followed by
\* "-%03d.jpeg", the conversion output is the same name followed by ".mp4",
\* and neither holds a directory separator.
C11_OutputNames ==
    /\ (fn = "ExtractingImagesContext" /\ pc = "e66w"
           /\ HasExtension(Deref(extractingImageOption).FilePath)) =>
          /\ outputFileFormat =
                 StrippedBaseName(Deref(extractingImageOption).FilePath) \o FrameSuffix
          /\ NoDirectory(outputFileFormat)
    /\ (fn = "ConvertToMP4Context" /\ pc = "c160"
           /\ HasExtension(Deref(mp4ConvertOption).filePath)) =>
          /\ outputFileFormat =
                 StrippedBaseName(Deref(mp4ConvertOption).filePath) \o MP4Suffix
          /\ NoDirectory(outputFileFormat)

\* A frame pattern was derived from a path with a directory, a name and an
\* extension.
C11_Witness ==
    /\ fn = "ExtractingImagesContext" /\ pc = "e66w"
    /\ LET p == Deref(extractingImageOption).FilePath
       IN  /\ HasExtension(p)
           /\ \E i \in 2..Len(p) : p[i] = Slash
           /\ StrippedBaseName(p) # <<>>

\* ------------------------------------------- conversion arguments (C12)
\* C12: the arguments ConvertToMP4Context builds, and starts the binary
\* with, are "-i", the configured file path and the derived .mp4 name,
\* followed by "-y" exactly when the configured Overwrite flag is true;
\* with Overwrite false there are these three arguments and nothing else.
C12_ConvertArgs ==
    (fn = "ConvertToMP4Context" /\ args # <<>>) =>
        LET o == Deref(mp4ConvertOption)
        IN  /\ Len(args) \in {3, 4}
            /\ args[1] = ArgI
            /\ args[2] = o.filePath
            /\ args[3] = resolveOutputMP4FileFormat(o.filePath)
            /\ (Len(args) = 4) <=> o.Overwrite
            /\ o.Overwrite => args[4] = ArgY

\* The binary was started for an option whose Overwrite flag is false.
C12_Witness ==
    /\ fn = "ConvertToMP4Context"
    /\ spawned = 1
    /\ ~Deref(mp4ConvertOption).Overwrite
    /\ Len(args) = 3

\* ------------------------------------------------ option slots (C13)
\* What the most recent setter call of a slot was asked to store.
StoredExtract ==
    CASE lastExtractSet[1] = "Default" ->
             Ptr([FrameRate |-> <<"1">>, OutputWidth |-> NIL,
                  OutputHeight |-> NIL, FilePath |-> lastExtractSet[2]])
      [] lastExtractSet[1] = "New" -> lastExtractSet[2]
      [] OTHER -> NIL

StoredMP4 ==
    CASE lastMP4Set[1] = "Default" ->
             Ptr([Overwrite |-> TRUE, filePath |-> lastMP4Set[2]])
      [] lastMP4Set[1] = "New" -> lastMP4Set[2]
      [] OTHER -> NIL

\* C13: after any sequence of option setter calls each slot holds what its
\* most recent setter call stored (the default helpers: FrameRate "1", no
\* width and height, resp. Overwrite true, and the given path), and an
\* extraction (conversion) call reads exactly that value: its nil check,
\* its output name, its size decision and its arguments come from it.
C13_LastStoredIsRead ==
    /\ extractingImageOption = StoredExtract
    /\ mp4ConvertOption = StoredMP4
    /\ (fn = "ExtractingImagesContext" /\ pc # "idle") =>
          /\ (Returned /\ RetErr = ErrOptionNotSet) <=> (StoredExtract = NIL)
          /\ pc = "e71" =>
                /\ outputFileFormat =
                       resolveOutputFrameFileFormat(Deref(StoredExtract).FilePath)
                /\ resize = (Deref(StoredExtract).OutputWidth # NIL
                               /\ Deref(StoredExtract).OutputHeight # NIL)
          /\ args # <<>> =>
                /\ args[2] = Deref(StoredExtract).FilePath
                /\ args[4] = Deref(StoredExtract).FrameRate
                /\ args[Len(args)] =
                       resolveOutputFrameFileFormat(Deref(StoredExtract).FilePath)
                /\ Len(args) = 9 =>
                       args[6] = SprintfSize(Deref(Deref(StoredExtract).OutputWidth),
                                             Deref(Deref(StoredExtract).OutputHeight))
    /\ (fn = "ConvertToMP4Context" /\ pc # "idle") =>
          /\ (Returned /\ RetErr = ErrOptionNotSet) <=> (StoredMP4 = NIL)
          /\ args # <<>> =>
                /\ args[2] = Deref(StoredMP4).filePath
                /\ args[3] = resolveOutputMP4FileFormat(Deref(StoredMP4).filePath)
                /\ (Len(args) = 4) <=> Deref(StoredMP4).Overwrite

\* An extraction call has built its arguments from what the default helper
\* stored after an earlier setter call: frame rate "1" and no size.
C13_Witness ==
    /\ fn = "ExtractingImagesContext"
    /\ ops = 3
    /\ lastExtractSet[1] = "Default"
    /\ Len(args) = 7
    /\ args[4] = <<"1">>

\* ------------------------------------------- independent globals (C14)
\* C14: every step changes at most one of the four package variables; a
\* step of an extraction-option (conversion-option) setter leaves the other
\* three alone; and no step of a runner call, from its entry to its return
\* and whatever it returns, changes any of the four.
C14_IndependentGlobals ==
    [][ /\ (ffprobeBinPath' # ffprobeBinPath) =>
               UNCHANGED <<ffmpegBinPath, extractingImageOption, mp4ConvertOption>>
        /\ (ffmpegBinPath' # ffmpegBinPath) =>
               UNCHANGED <<ffprobeBinPath, extractingImageOption, mp4ConvertOption>>
        /\ (extractingImageOption' # extractingImageOption
             \/ lastExtractSet' # lastExtractSet) =>
               UNCHANGED <<ffprobeBinPath, ffmpegBinPath, mp4ConvertOption>>
        /\ (mp4ConvertOption' # mp4ConvertOption \/ lastMP4Set' # lastMP4Set) =>
               UNCHANGED <<ffprobeBinPath, ffmpegBinPath, extractingImageOption>>
        /\ (fn' # "none") => UNCHANGED globals
      ]_vars

\* The binary path and the conversion slot were set, a conversion call has
\* returned, and the two other globals still hold their initial values.
C14_Witness ==
    /\ Returned
    /\ fn = "ConvertToMP4Context"
    /\ ffmpegBinPath # "ffmpeg"
    /\ mp4ConvertOption # NIL
    /\ ffprobeBinPath = "ffprobe"
    /\ extractingImageOption = NIL

\* ------------------------------------- setters racing with a call (C15)
\* The program positions at which a call reads its option slot.
ReadPcs == {"e65", "e66w", "e66h", "e71", "e72", "e73w", "e73h",
            "c158", "c160", "c165"}

\* Another goroutine calls an option setter while a call is between its nil
\* check and its last read of the slot: the single assignment of the setter
\* happens between two steps of the call.
ConcurrentSetter ==
    /\ pc \in ReadPcs
    /\ ops < MaxOps
    /\ ops' = ops + 1
    /\ UNCHANGED <<ffprobeBinPath, ffmpegBinPath, ctxAtEntry, pc, fn, wrapper,
                   ctxVars, localVars, procVars, waitVars, ret, histVars>>

ConcurrentDefaultExtractingImagesOption(filePath) ==
    /\ ConcurrentSetter
    /\ extractingImageOption' =
           Ptr([FrameRate |-> <<"1">>, OutputWidth |-> NIL,
                OutputHeight |-> NIL, FilePath |-> filePath])
    /\ lastExtractSet' = <<"Default", filePath>>
    /\ UNCHANGED <<mp4ConvertOption, lastMP4Set>>

ConcurrentNewExtractingImagesOption(option) ==
    /\ ConcurrentSetter
    /\ extractingImageOption' = option
    /\ lastExtractSet' = <<"New", option>>
    /\ UNCHANGED <<mp4ConvertOption, lastMP4Set>>

ConcurrentDefaultMP4ConvertOption(filePath) ==
    /\ ConcurrentSetter
    /\ mp4ConvertOption' = Ptr([Overwrite |-> TRUE, filePath |-> filePath])
    /\ lastMP4Set' = <<"Default", filePath>>
    /\ UNCHANGED <<extractingImageOption, lastExtractSet>>

ConcurrentNewMP4ConvertOption(option) ==
    /\ ConcurrentSetter
    /\ mp4ConvertOption' = option
    /\ lastMP4Set' = <<"New", option>>
    /\ UNCHANGED <<extractingImageOption, lastExtractSet>>

\* The option setters, called between calls or during one, and the
\* extraction and conversion calls up to their complete argument list.
RaceNext ==
    \/ \E f \in FilePaths : DefaultExtractingImagesOption(f)
    \/ \E o \in {NIL} \cup {Ptr(x) : x \in ExtractingImagesOptions} :
          NewExtractingImagesOption(o)
    \/ \E f \in FilePaths : DefaultMP4ConvertOption(f)
    \/ \E o \in {NIL} \cup {Ptr(x) : x \in MP4ConvertOptions} :
          NewMP4ConvertOption(o)
    \/ \E f \in FilePaths : ConcurrentDefaultExtractingImagesOption(f)
    \/ \E o \in {NIL} \cup {Ptr(x) : x \in ExtractingImagesOptions} :
          ConcurrentNewExtractingImagesOption(o)
    \/ \E f \in FilePaths : ConcurrentDefaultMP4ConvertOption(f)
    \/ \E o \in {NIL} \cup {Ptr(x) : x \in MP4ConvertOptions} :
          ConcurrentNewMP4ConvertOption(o)
    \/ \E c \in Contexts : ExtractingImagesContext(c)
    \/ ExtractOutputName
    \/ ExtractResizeWidth
    \/ ExtractResizeHeight
    \/ ExtractArgPath
    \/ ExtractArgRate
    \/ ExtractArgWidth
    \/ ExtractArgHeight
    \/ \E c \in Contexts : ConvertToMP4Context(c)
    \/ ConvertOutputName
    \/ ConvertArgPath
    \/ ConvertOverwrite

RaceSpec == Init /\ [][RaceNext]_vars

\* C15: a call holds no copy of its option. Every step of an extraction or
\* conversion call that uses the option takes the value the slot holds at
\* that step, whatever an earlier step of the same call saw: the output
\* name, the size decision, the input path, the frame rate, the size and
\* the overwrite flag each come from the current slot, and a slot (or a
\* size field about to be dereferenced) that is nil at that step panics
\* although the nil check at the entry has passed.
C15_RereadsGlobal ==
    [][ LET e == extractingImageOption
            m == mp4ConvertOption
            moved == pc' # pc
            panics == pc' = "panicked"
        IN  /\ (pc = "e65" /\ moved) =>
                  IF e = NIL THEN panics
                  ELSE outputFileFormat' = resolveOutputFrameFileFormat(Deref(e).FilePath)
            /\ (pc = "e66w" /\ moved) =>
                  IF e = NIL THEN panics
                  ELSE IF Deref(e).OutputWidth = NIL
                       THEN pc' = "e71" /\ ~resize'
                       ELSE pc' = "e66h"
            /\ (pc = "e66h" /\ moved) =>
                  IF e = NIL THEN panics
                  ELSE resize' = (Deref(e).OutputHeight # NIL)
            /\ (pc = "e71" /\ moved) =>
                  IF e = NIL THEN panics
                  ELSE reads' = <<Deref(e).FilePath>>
            /\ (pc = "e72" /\ moved) =>
                  IF e = NIL THEN panics
                  ELSE IF resize
                       THEN reads' = <<reads[1], Deref(e).FrameRate>>
                       ELSE args' = <<ArgI, reads[1], ArgR, Deref(e).FrameRate,
                                      ArgF, ArgImage2, outputFileFormat>>
            /\ (pc = "e73w" /\ moved) =>
                  IF e = NIL \/ Deref(e).OutputWidth = NIL THEN panics
                  ELSE reads' = <<reads[1], reads[2], Deref(e).OutputWidth>>
            /\ (pc = "e73h" /\ moved) =>
                  IF e = NIL \/ Deref(e).OutputHeight = NIL THEN panics
                  ELSE args' = <<ArgI, reads[1], ArgR, reads[2], ArgS,
                                 Digits(Deref(reads[3])) \o <<"x">>
                                     \o Digits(Deref(Deref(e).OutputHeight)),
                                 ArgF, ArgImage2, outputFileFormat>>
            /\ (pc = "c158" /\ moved) =>
                  IF m = NIL THEN panics
                  ELSE outputFileFormat' = resolveOutputMP4FileFormat(Deref(m).filePath)
            /\ (pc = "c160" /\ moved) =>
                  IF m = NIL THEN panics
                  ELSE reads' = <<Deref(m).filePath>>
            /\ (pc = "c165" /\ moved) =>
                  IF m = NIL THEN panics
                  ELSE args' = IF Deref(m).Overwrite
                               THEN <<ArgI, reads[1], outputFileFormat, ArgY>>
                               ELSE <<ArgI, reads[1], outputFileFormat>>
      ]_vars

\* One extraction call whose arguments come from two option values: the
\* output name was derived from one file path, the input path is another.
C15_Witness ==
    /\ fn = "ExtractingImagesContext"
    /\ pc = "start"
    /\ args[Len(args)] # resolveOutputFrameFileFormat(args[2])

\* A call whose nil check passed has dereferenced a nil slot.
PanicAfterNilCheck ==
    /\ pc = "panicked"
    /\ fn \in {"ExtractingImagesContext", "ConvertToMP4Context"}

\* ------------------------------------------------------ progress (C16)
\* The goroutine that executes a call takes its next step when it can.
CallerStep ==
    \/ ExtractOutputName
    \/ ExtractResizeWidth
    \/ ExtractResizeHeight
    \/ ExtractArgPath
    \/ ExtractArgRate
    \/ ExtractArgWidth
    \/ ExtractArgHeight
    \/ ConvertOutputName
    \/ ConvertArgPath
    \/ ConvertOverwrite
    \/ Start
    \/ SelectCancel
    \/ SelectDone

\* The deadline of a timeout wrapper's context passes.
DeadlineFire == CtxFire /\ wrapper

\* The race-based calls, plain and through their timeout wrappers, with
\* the option setters to configure them.
FairNext ==
    \/ \E f \in FilePaths : DefaultExtractingImagesOption(f)
    \/ \E o \in {NIL} \cup {Ptr(x) : x \in ExtractingImagesOptions} :
          NewExtractingImagesOption(o)
    \/ \E f \in FilePaths : DefaultMP4ConvertOption(f)
    \/ \E o \in {NIL} \cup {Ptr(x) : x \in MP4ConvertOptions} :
          NewMP4ConvertOption(o)
    \/ \E c \in Contexts : ExtractingImagesContext(c)
    \/ \E t \in Timeouts : ExtractingImages(t)
    \/ \E c \in Contexts : ConvertToMP4Context(c)
    \/ \E t \in Timeouts : ConvertToMP4(t)
    \/ \E c \in Contexts, f \in ProbeFiles : GetProbeDataContext(c, f)
    \/ \E f \in ProbeFiles, t \in Timeouts : GetProbeData(f, t)
    \/ CallerStep
    \/ WaiterWait
    \/ WaiterSend
    \/ CtxFire
    \/ \E code \in ExitCodes, out \in Outputs, e \in StdErrs : ProcExit(code, out, e)
    \/ ProcKilled

\* The Go scheduler runs every goroutine that can run (the caller, the
\* waiter), the timer of a context with a deadline fires, and a subprocess
\* that was sent SIGKILL, which it can neither catch nor ignore, ends.
\* Nothing makes a subprocess exit by itself, and nobody has to cancel a
\* context without a deadline.
FairSpec ==
    /\ Init
    /\ [][FairNext]_vars
    /\ WF_vars(CallerStep)
    /\ WF_vars(WaiterWait)
    /\ WF_vars(WaiterSend)
    /\ WF_vars(DeadlineFire)
    /\ WF_vars(ProcKilled)

\* C16: a call of a timeout wrapper (GetProbeData, ExtractingImages,
\* ConvertToMP4) that is executing eventually returns, also when its
\* subprocess never exits by itself; and when it has started a subprocess
\* it returns through the done branch with the subprocess's success or
\* its execution error, or through the cancellation branch with ErrTimeout
\* or the kill's error.
C16_WrapperReturns ==
    /\ []((wrapper /\ Returned /\ spawned = 1) =>
            \/ /\ branch = "done"
               /\ \/ runErr = NilErr
                  \/ runErr = Err("exec.ExitError") /\ RetErr = runErr
            \/ /\ branch = "cancel"
               /\ RetErr \in {ErrTimeout, Err("os.ErrProcessDone")}
               /\ RetErr = CancelResult(killErr))
    /\ ((wrapper /\ pc \notin {"idle", "returned"}) ~> Returned)

\* A wrapper's call has returned ErrTimeout for a subprocess that did not
\* exit by itself: the deadline passed during the call and the kill ended it.
C16_Witness ==
    /\ wrapper
    /\ Returned
    /\ ~ctxAtEntry
    /\ procState = "killed"
    /\ RetErr = ErrTimeout

\* ---------------------------------------------------- the waiter (C17)
\* C17: a race-based call has a waiter exactly when it has started its one
\* subprocess; the done channel never holds more than one value and is
\* empty whenever the waiter is at its send, so the send never blocks;
\* and after the call has returned through the cancellation branch with a
\* successful kill, the waiter eventually sends and terminates.
C17_WaiterDelivers ==
    /\ [](fn \in RaceFns => /\ spawned \in {0, 1}
                            /\ (waiter # "none") <=> (spawned = 1))
    /\ [](Len(done) <= 1)
    /\ [](waiter = "sending" => done = <<>>)
    /\ ((Returned /\ fn \in RaceFns /\ branch = "cancel" /\ killErr = NilErr)
           ~> (waiter = "finished"))

\* The call returned ErrTimeout after a successful kill, and the waiter has
\* terminated, leaving its result in the channel nobody reads any more.
C17_Witness ==
    /\ Returned
    /\ fn \in RaceFns
    /\ branch = "cancel"
    /\ killErr = NilErr
    /\ waiter = "finished"
    /\ done = <<waitErr>>

\* ------------------------------------- a context that is already done (C18)
\* A race-based call was made with a context that was already done, its
\* option is set and its binary starts.
CalledWithDoneContext ==
    /\ fn \in RaceFns
    /\ ctxAtEntry
    /\ Configured(fn)
    /\ StartProcess(BinPathOf(fn)) = NilErr

\* C18 as stated: such a call has spawned a subprocess, has sent it a kill,
\* and returns ErrTimeout or the kill's error.
C18_DoneContextKills ==
    (Returned /\ CalledWithDoneContext) =>
        /\ spawned = 1
        /\ kills = 1
        /\ RetErr \in {ErrTimeout, Err("os.ErrProcessDone")}

\* C18 as amended: such a call neither kills nor takes a branch of the
\* select before it has spawned its subprocess, and it returns only after
\* spawning one; it returns through the cancellation branch, after one
\* kill, with ErrTimeout or the kill's error, unless the subprocess has
\* exited by itself and been reaped and the select took the waiter's
\* result, in which case no kill was sent.
C18_DoneContextSeenAfterStart ==
    /\ (CalledWithDoneContext /\ spawned = 0) =>
          /\ ~Returned
          /\ kills = 0
          /\ branch = "none"
    /\ (Returned /\ CalledWithDoneContext) =>
          /\ spawned = 1
          /\ \/ /\ branch = "cancel"
                /\ kills = 1
                /\ RetErr = CancelResult(killErr)
                /\ RetErr \in {ErrTimeout, Err("os.ErrProcessDone")}
             \/ /\ branch = "done"
                /\ kills = 0
                /\ procState \in ExitCodes
                /\ proc = "reaped"

\* A call made with a context that was already done has spawned its
\* subprocess, killed it and returned ErrTimeout.
C18_Witness ==
    /\ Returned
    /\ CalledWithDoneContext
    /\ spawned = 1
    /\ branch = "cancel"
    /\ procState = "killed"
    /\ RetErr = ErrTimeout
====
